---- MODULE Spec2Model ----
(***************************************************************************)
(* Model of the OpenLLM bundling code:                                     *)
(*   openllm/bundle/_package.py  (build_editable, construct_python_options,*)
(*                                construct_docker_options, create_bento)  *)
(*   openllm/models/falcon/__init__.py  (the lazy import structure)        *)
(*                                                                         *)
(* Text is modelled as a sequence of chunks.  A chunk is either one of the *)
(* two characters that matter to quoting (the double quote and the         *)
(* backslash) or a run of ordinary characters that no encoder or decoder   *)
(* treats specially.                                                       *)
(***************************************************************************)
EXTENDS Integers, Sequences, FiniteSets, TLC

VARIABLES
  pc,                 \* position inside create_bento
  dev_build,          \* os.environ: is OPENLLM_DEV_BUILD set to a true value
  llm_fs,             \* staging filesystem: file name -> content
  llm,                \* argument llm
  adapter_map,        \* argument adapter_map
  extra_dependencies, \* argument extra_dependencies
  serialisation,      \* argument serialisation
  _serialisation,     \* local of create_bento (line 80)
  labels,             \* local of create_bento (lines 81-91)
  script,             \* local of create_bento (lines 95-103)
  include,            \* list(llm_fs.walk.files()) (line 119)
  fs_before,          \* the staging filesystem as construct_python_options found it
  calls,              \* log of the build_editable calls of this invocation
  python,             \* PythonOptions built at line 121
  returned_environ,   \* what process_environ returned (line 59)
  docker,             \* DockerOptions built at line 122
  bento,              \* what bentoml.Bento.create was handed, and the files then staged
  prev_script,        \* the script the previous invocation generated
  service_vars,       \* the bindings made by executing the generated _service_vars.py
  falcon              \* the state of the import of openllm.models.falcon

vars == <<pc, dev_build, llm_fs, llm, adapter_map, extra_dependencies, serialisation,
          _serialisation, labels, script, include, fs_before, calls, python,
          returned_environ, docker, bento, prev_script, service_vars, falcon>>

-----------------------------------------------------------------------------
(* Bounds *)

\* longest adapter path (in chunks) passed in an adapter map
MaxStrLen == 1

-----------------------------------------------------------------------------
(* Text *)

DQ == "\""
BS == "\\"

\* a Python str made of one ordinary chunk
S(x) == <<x>>

None == [tag |-> "None"]
IsNone(v) == v.tag = "None"
Some(v) == [tag |-> "some", val |-> v]

\* a dict, in insertion order: a sequence of <<key, value>> pairs with distinct keys
Dict(items) == [tag |-> "dict", items |-> items]

Range(s) == {s[i] : i \in DOMAIN s}

RECURSIVE Concat(_)
Concat(ss) == IF ss = <<>> THEN <<>> ELSE Head(ss) \o Concat(Tail(ss))

\* dict.get on an insertion-ordered item list
HasKey(items, k) == \E i \in DOMAIN items : items[i][1] = k
Lookup(items, k) == items[CHOOSE i \in DOMAIN items : items[i][1] = k][2]

\* d[k] = v on an insertion-ordered item list: a present key keeps its position
SetItem(items, k, v) ==
  IF HasKey(items, k)
    THEN [i \in DOMAIN items |-> IF items[i][1] = k THEN <<k, v>> ELSE items[i]]
    ELSE Append(items, <<k, v>>)

\* dict.update(other)
RECURSIVE Update(_, _)
Update(items, other) ==
  IF other = <<>> THEN items
  ELSE Update(SetItem(items, Head(other)[1], Head(other)[2]), Tail(other))

-----------------------------------------------------------------------------
(* orjson.dumps(adapter_map).decode(): compact JSON, keys in insertion order *)

RECURSIVE JsonEscape(_)
JsonEscape(s) ==
  IF s = <<>> THEN <<>>
  ELSE (IF Head(s) = DQ THEN <<BS, DQ>>
        ELSE IF Head(s) = BS THEN <<BS, BS>>
        ELSE <<Head(s)>>) \o JsonEscape(Tail(s))

JsonString(s) == <<DQ>> \o JsonEscape(s) \o <<DQ>>

RECURSIVE JsonMembers(_)
JsonMembers(items) ==
  IF items = <<>> THEN <<>>
  ELSE JsonString(Head(items)[1]) \o <<":">> \o JsonString(Head(items)[2])
       \o (IF Tail(items) = <<>> THEN <<>> ELSE <<",">> \o JsonMembers(Tail(items)))

orjson_dumps(v) ==
  IF IsNone(v) THEN <<"null">> ELSE <<"{">> \o JsonMembers(v.items) \o <<"}">>

-----------------------------------------------------------------------------
(* orjson.loads(text): a strict JSON parser for null and for objects whose *)
(* members are strings.  Error is the JSONDecodeError it raises.           *)

Error == [tag |-> "error"]

\* the string token starting at text[i] (an opening quote): its value and the
\* index after its closing quote
RECURSIVE JsonStringAt(_, _, _)
JsonStringAt(text, i, acc) ==
  IF i > Len(text) THEN Error
  ELSE IF text[i] = DQ THEN [tag |-> "ok", val |-> acc, next |-> i + 1]
  ELSE IF text[i] = BS THEN
    IF i + 1 > Len(text) THEN Error
    ELSE IF text[i + 1] \in {DQ, BS} THEN JsonStringAt(text, i + 2, Append(acc, text[i + 1]))
    ELSE Error
  ELSE JsonStringAt(text, i + 1, Append(acc, text[i]))

JsonReadString(text, i) ==
  IF i > Len(text) \/ text[i] # DQ THEN Error ELSE JsonStringAt(text, i + 1, <<>>)

\* the members of an object from text[i] on, after "{" or ","
RECURSIVE JsonReadMembers(_, _, _)
JsonReadMembers(text, i, items) ==
  LET k == JsonReadString(text, i) IN
  IF k.tag = "error" THEN Error
  ELSE IF k.next > Len(text) \/ text[k.next] # ":" THEN Error
  ELSE LET v == JsonReadString(text, k.next + 1) IN
    IF v.tag = "error" THEN Error
    ELSE IF v.next > Len(text) THEN Error
    ELSE IF text[v.next] = "}" THEN
      (IF v.next = Len(text) THEN Dict(SetItem(items, k.val, v.val)) ELSE Error)
    ELSE IF text[v.next] = "," THEN
      JsonReadMembers(text, v.next + 1, SetItem(items, k.val, v.val))
    ELSE Error

orjson_loads(text) ==
  IF text = <<"null">> THEN None
  ELSE IF text = <<"{", "}">> THEN Dict(<<>>)
  ELSE IF Len(text) >= 1 /\ text[1] = "{" THEN JsonReadMembers(text, 2, <<>>)
  ELSE Error

-----------------------------------------------------------------------------
(* The Python tokenizer on a triple-quoted (non-raw) string literal: text  *)
(* starts right after the opening three quotes.  The literal ends at the   *)
(* first three unescaped quotes; backslash-quote and backslash-backslash   *)
(* are escape sequences, a backslash before an ordinary chunk is kept.     *)

RECURSIVE PyTripleQuoted(_, _, _)
PyTripleQuoted(text, i, acc) ==
  IF i > Len(text) THEN Error
  ELSE IF i + 2 <= Len(text) /\ text[i] = DQ /\ text[i + 1] = DQ /\ text[i + 2] = DQ
    THEN [tag |-> "ok", val |-> acc, next |-> i + 3]
  ELSE IF text[i] = BS THEN
    IF i + 1 > Len(text) THEN Error
    ELSE IF text[i + 1] \in {DQ, BS} THEN PyTripleQuoted(text, i + 2, Append(acc, text[i + 1]))
    ELSE PyTripleQuoted(text, i + 2, acc \o <<BS, text[i + 1]>>)
  ELSE PyTripleQuoted(text, i + 1, Append(acc, text[i]))

-----------------------------------------------------------------------------
(* Paths: a sequence of components below the root *)

\* pathlib.Path.parent
Parent(p) == IF p = <<>> THEN <<>> ELSE SubSeq(p, 1, Len(p) - 1)

\* i.split('/')[-1]
BaseName(p) == p[Len(p)]

\* llm_fs.getsyspath('/')
FsRoot == <<"tmp", "llm_fs">>

\* llm_fs.getsyspath('/' + name)
getsyspath(name) == FsRoot \o <<name>>

-----------------------------------------------------------------------------
(* build_editable *)

Packages == <<"openllm_core", "openllm_client", "openllm">>

\* the name of the wheel the build tool produces for a package
WheelName(package) ==
  CASE package = "openllm_core" -> "openllm_core-0.4.44-py3-none-any.whl"
    [] package = "openllm_client" -> "openllm_client-0.4.44-py3-none-any.whl"
    [] OTHER -> "openllm-0.4.44-py3-none-any.whl"

\* where an editable checkout keeps a package: <repo>/<project>/src/<package>
SourceTree(package) == <<"repo", package, "src", package>>

\* what pkg.source_locations(package) may return
SourceLocations(package) == {None, Some(SourceTree(package))}

\* the regular files of the host that matter: none, the project's
\* pyproject.toml, or a pyproject.toml one directory too low
HostLayouts(package) ==
  { {},
    {<<"repo", package, "pyproject.toml">>},
    {<<"repo", package, "src", "pyproject.toml">>} }

\* builder.build('wheel', path, ...): writes the wheel into path, returns its path
ProjectBuilder_build(path, package) == path \o <<WheelName(package)>>

\* build_editable without the test of the flag at line 17
build_editable_no_flag(path, package, dev, module_location, host_files) ==
  IF IsNone(module_location) THEN
    [ret |-> None, raised |-> "Could not find the source location of OpenLLM.",
     resolved |-> TRUE, builds |-> 0, written |-> {}]
  ELSE LET pyproject_path == Parent(Parent(module_location.val)) \o <<"pyproject.toml">> IN
    IF pyproject_path \in host_files THEN
      [ret |-> Some(ProjectBuilder_build(path, package)), raised |-> "",
       resolved |-> TRUE, builds |-> 1, written |-> {ProjectBuilder_build(path, package)}]
    ELSE
      [ret |-> None, raised |-> "Please install OpenLLM from PyPI or built it from Git source.",
       resolved |-> TRUE, builds |-> 0, written |-> {}]

\* build_editable looking for pyproject.toml one directory above the source
\* location instead of two (line 27 with a single .parent)
build_editable_one_parent(path, package, dev, module_location, host_files) ==
  IF ~dev THEN
    [ret |-> None, raised |-> "", resolved |-> FALSE, builds |-> 0, written |-> {}]
  ELSE IF IsNone(module_location) THEN
    [ret |-> None, raised |-> "Could not find the source location of OpenLLM.",
     resolved |-> TRUE, builds |-> 0, written |-> {}]
  ELSE LET pyproject_path == Parent(module_location.val) \o <<"pyproject.toml">> IN
    IF pyproject_path \in host_files THEN
      [ret |-> Some(ProjectBuilder_build(path, package)), raised |-> "",
       resolved |-> TRUE, builds |-> 1, written |-> {ProjectBuilder_build(path, package)}]
    ELSE
      [ret |-> None, raised |-> "Please install OpenLLM from PyPI or built it from Git source.",
       resolved |-> TRUE, builds |-> 0, written |-> {}]

\* build_editable(path, package) with the environment it reads: the flag, the
\* answer of pkg.source_locations and the files of the host.
\*   ret      the value returned (None when it raised)
\*   raised   the RuntimeError raised, "" when none
\*   resolved whether pkg.source_locations was called
\*   builds   the number of calls of builder.build
\*   written  the paths written
build_editable(path, package, dev, module_location, host_files) ==
  IF ~dev THEN
    [ret |-> None, raised |-> "", resolved |-> FALSE, builds |-> 0, written |-> {}]
  ELSE IF IsNone(module_location) THEN
    [ret |-> None, raised |-> "Could not find the source location of OpenLLM.",
     resolved |-> TRUE, builds |-> 0, written |-> {}]
  ELSE LET pyproject_path == Parent(Parent(module_location.val)) \o <<"pyproject.toml">> IN
    IF pyproject_path \in host_files THEN
      [ret |-> Some(ProjectBuilder_build(path, package)), raised |-> "",
       resolved |-> TRUE, builds |-> 1, written |-> {ProjectBuilder_build(path, package)}]
    ELSE
      [ret |-> None, raised |-> "Please install OpenLLM from PyPI or built it from Git source.",
       resolved |-> TRUE, builds |-> 0, written |-> {}]

-----------------------------------------------------------------------------
(* construct_python_options *)

\* RefResolver.from_strategy("release").version
ReleaseVersion == S("0.4.44")

CorePackages ==
  << S("scipy"), S("bentoml[tracing]>=1.1.11,<1.2"), S("openllm[vllm]>=") \o ReleaseVersion >>

\* lines 41-47 with the test of line 44 made an elif of the test of line 42
python_packages_elif(model, extra, adapters) ==
  CorePackages
  \o (IF ~IsNone(adapters) THEN << S("openllm[fine-tune]") >>
      ELSE IF ~IsNone(extra)
        THEN [i \in DOMAIN extra.val |-> S("openllm[") \o extra.val[i] \o S("]")]
        ELSE <<>>)
  \o (IF ~IsNone(model.config.requirements) THEN model.config.requirements.val ELSE <<>>)

\* lines 41-47
python_packages(model, extra, adapters) ==
  CorePackages
  \o (IF ~IsNone(adapters) THEN << S("openllm[fine-tune]") >> ELSE <<>>)
  \o (IF ~IsNone(extra)
        THEN [i \in DOMAIN extra.val |-> S("openllm[") \o extra.val[i] \o S("]")]
        ELSE <<>>)
  \o (IF ~IsNone(model.config.requirements) THEN model.config.requirements.val ELSE <<>>)

\* line 51: all(i for i in built_wheels)
AllBuilt(built_wheels) == \A i \in DOMAIN built_wheels : ~IsNone(built_wheels[i])

\* lines 49-53
PythonOptions(model, extra, adapters, built_wheels) ==
  [packages |-> python_packages(model, extra, adapters),
   wheels |-> IF AllBuilt(built_wheels)
                THEN Some([i \in DOMAIN built_wheels |-> getsyspath(BaseName(built_wheels[i].val))])
                ELSE None,
   lock_packages |-> FALSE]

-----------------------------------------------------------------------------
(* construct_docker_options *)

\* dict.pop(k, None)
Pop(items, k) == SelectSeq(items, LAMBDA it : it[1] # k)

\* what process_environ may return for the arguments of line 59: always
\* OPENLLM_CONFIG, with or without BENTOML_HOME and NVIDIA_DRIVER_CAPABILITIES
ProcessEnviron(model) ==
  { << <<S("OPENLLM_MODEL_ID"), model.model_id>>,
       <<S("OPENLLM_SERIALIZATION"), model._serialisation>>,
       <<S("OPENLLM_CONFIG"), model.config.json>> >> \o inherited :
      inherited \in { <<>>,
                      << <<S("BENTOML_HOME"), S("/home/user/bentoml")>>,
                         <<S("NVIDIA_DRIVER_CAPABILITIES"), S("all")>> >> } }

\* lines 61-64 without the pop of line 62
construct_docker_options_no_pop(environ, dockerfile_template) ==
  LET quoted == SetItem(environ, S("OPENLLM_CONFIG"),
                        S("'") \o Lookup(environ, S("OPENLLM_CONFIG")) \o S("'"))
      env == SetItem(quoted, S("NVIDIA_DRIVER_CAPABILITIES"), S("compute,utility"))
  IN [python_version |-> "3.11", env |-> env, dockerfile_template |-> dockerfile_template]

\* lines 61-64
construct_docker_options(environ, dockerfile_template) ==
  LET quoted == SetItem(environ, S("OPENLLM_CONFIG"),
                        S("'") \o Lookup(environ, S("OPENLLM_CONFIG")) \o S("'"))
      popped == Pop(quoted, S("BENTOML_HOME"))
      env == SetItem(popped, S("NVIDIA_DRIVER_CAPABILITIES"), S("compute,utility"))
  IN [python_version |-> "3.11", env |-> env, dockerfile_template |-> dockerfile_template]

-----------------------------------------------------------------------------
(* The inputs of create_bento *)

PyStr(b) == IF b THEN S("True") ELSE S("False")

\* str(llm.tag)
TagStr(tag) == tag.name \o S(":") \o tag.version

\* openllm_core.utils.first_not_none(x, default=d)
first_not_none(x, d) == IF IsNone(x) THEN d ELSE x.val

Falcon7b ==
  [model_id |-> S("tiiuae/falcon-7b"),
   tag |-> [name |-> S("pt-falcon-7b"), version |-> S("898df13")],
   llm_type |-> S("falcon"),
   backend |-> S("pt"),
   trust_remote_code |-> TRUE,
   max_model_len |-> S("2048"),
   gpu_memory_utilization |-> S("0.9"),
   _serialisation |-> S("safetensors"),
   identifying_params |-> << <<S("configuration"), S("{}")>>,
                             <<S("model_ids"), S("[]")>>,
                             <<S("model_id"), S("tiiuae/falcon-7b")>> >>,
   config |-> [serialisation |-> S("safetensors"),
               service_name |-> "generated_falcon_service.py",
               start_name |-> S("falcon"),
               requirements |-> Some(<< S("einops"), S("xformers") >>),
               json |-> S("{}")]]

Opt125m ==
  [model_id |-> S("facebook/opt-125m"),
   tag |-> [name |-> S("vllm-opt-125m"), version |-> S("27dcfa7")],
   llm_type |-> S("opt"),
   backend |-> S("vllm"),
   trust_remote_code |-> FALSE,
   max_model_len |-> S("None"),
   gpu_memory_utilization |-> S("0.9"),
   _serialisation |-> S("legacy"),
   identifying_params |-> << <<S("configuration"), S("{}")>>,
                             <<S("model_ids"), S("[]")>>,
                             <<S("model_id"), S("facebook/opt-125m")>> >>,
   config |-> [serialisation |-> S("legacy"),
               service_name |-> "generated_opt_service.py",
               start_name |-> S("opt"),
               requirements |-> None,
               json |-> S("{}")]]

LLMs == {Falcon7b, Opt125m}

\* the argument bento_tag: the tag of the bundle to build for a model
BentoTag(model) == [name |-> model.llm_type \o S("-service"), version |-> model.tag.version]

Alphabet == {"p", DQ, BS}

\* the non-empty texts of at most n chunks
Strings(n) == UNION {[1..k -> Alphabet] : k \in 1..n}

AdapterNames == {S("lora"), S("_type")}

AdapterMaps ==
  {None, Dict(<<>>)}
  \cup {Dict(<< <<k, v>> >>) : k \in AdapterNames, v \in Strings(MaxStrLen)}
  \cup {Dict(<< <<ks[1], S("p")>>, <<ks[2], S("p")>> >>) :
          ks \in {x \in AdapterNames \X AdapterNames : x[1] # x[2]}}

ExtraDependencies ==
  {None, Some(<<>>), Some(<< S("gptq") >>), Some(<< S("gptq"), S("ggml") >>)}

Serialisations == {None, Some(S("safetensors")), Some(S("legacy"))}

\* the staging filesystem a caller may hand over
Text(s) == [kind |-> "text", text |-> s]
Wheel(path) == [kind |-> "wheel", path |-> path]
EmptyFs == [n \in {} |-> Text(<<>>)]
InitialFs == {EmptyFs, [n \in {"README.md"} |-> Text(S("staged earlier"))]}

\* llm_fs.writetext(name, text) and a file the build tool writes
writefile(fs, name, content) ==
  [n \in DOMAIN fs \cup {name} |-> IF n = name THEN content ELSE fs[n]]

\* llm_fs.walk.files()
walk_files(fs) == DOMAIN fs

-----------------------------------------------------------------------------
(* create_bento: labels (lines 81-91) *)

\* importlib.metadata.version(package)
InstalledVersion(package) == S("0.4.44")

\* f'{package.replace("-","_")}_version'
VersionLabel(package) ==
  CASE package = "openllm" -> S("openllm_version")
    [] package = "openllm-core" -> S("openllm_core_version")
    [] OTHER -> S("openllm_client_version")

BundlePackages == <<"openllm", "openllm-core", "openllm-client">>

\* the labels computed from the model and the installed packages (lines 82-89)
CoreLabels(model) ==
  << <<S("_type"), model.llm_type>>,
     <<S("_framework"), model.backend>>,
     <<S("start_name"), model.config.start_name>>,
     <<S("base_name_or_path"), model.model_id>>,
     <<S("bundler"), S("openllm.bundle")>> >>
  \o [i \in DOMAIN BundlePackages |->
        <<VersionLabel(BundlePackages[i]), InstalledVersion(BundlePackages[i])>>]

\* lines 81-91
bento_labels(model, adapters) ==
  LET base == Update(model.identifying_params, CoreLabels(model)) IN
  IF ~IsNone(adapters) /\ adapters.items # <<>> THEN Update(base, adapters.items) ELSE base

-----------------------------------------------------------------------------
(* create_bento: the generated script (lines 13, 95-103) *)

Lit(text) == [kind |-> "lit", text |-> text]
Field(name) == [kind |-> "field", name |-> name]

LoadsOpen == "',orjson.loads("
LoadsClose == "),'"

\* line 13
_SERVICE_VARS ==
  << Lit(S("import orjson;model_id,model_tag,adapter_map,serialization,trust_remote_code,max_model_len,gpu_memory_utilization='")),
     Field("__model_id__"), Lit(S("','")), Field("__model_tag__"),
     Lit(<<LoadsOpen, DQ, DQ, DQ>>), Field("__model_adapter_map__"), Lit(<<DQ, DQ, DQ, LoadsClose>>),
     Field("__model_serialization__"), Lit(S("',")), Field("__model_trust_remote_code__"),
     Lit(S(",")), Field("__max_model_len__"), Lit(S(",")), Field("__gpu_memory_utilization__") >>

\* str.format(**kwargs): every field replaced by its argument, which is not scanned again
Format(template, kwargs) ==
  Concat([i \in DOMAIN template |->
            IF template[i].kind = "lit" THEN template[i].text ELSE kwargs[template[i].name]])

\* lines 95-103 with line 99 embedding the local _serialisation
service_vars_script_resolved(model, adapters, resolved) ==
  S("# fmt: off\n# GENERATED BY 'openllm build ") \o model.model_id \o S("'. DO NOT EDIT\n")
  \o Format(_SERVICE_VARS,
       [__model_id__ |-> model.model_id,
        __model_tag__ |-> TagStr(model.tag),
        __model_adapter_map__ |-> orjson_dumps(adapters),
        __model_serialization__ |-> resolved,
        __model_trust_remote_code__ |-> PyStr(model.trust_remote_code),
        __max_model_len__ |-> model.max_model_len,
        __gpu_memory_utilization__ |-> model.gpu_memory_utilization])

\* lines 95-103.  resolved is the local _serialisation, which the script does not use.
service_vars_script(model, adapters, resolved) ==
  S("# fmt: off\n# GENERATED BY 'openllm build ") \o model.model_id \o S("'. DO NOT EDIT\n")
  \o Format(_SERVICE_VARS,
       [__model_id__ |-> model.model_id,
        __model_tag__ |-> TagStr(model.tag),
        __model_adapter_map__ |-> orjson_dumps(adapters),
        __model_serialization__ |-> model.config.serialisation,
        __model_trust_remote_code__ |-> PyStr(model.trust_remote_code),
        __max_model_len__ |-> model.max_model_len,
        __gpu_memory_utilization__ |-> model.gpu_memory_utilization])

\* the least index from i on at which text holds chunk c, 0 when there is none
IndexFrom(text, i, c) ==
  LET hits == {j \in DOMAIN text : j >= i /\ text[j] = c} IN
  IF hits = {} THEN 0 ELSE CHOOSE j \in hits : \A k \in hits : j <= k

AssignOpen == _SERVICE_VARS[1].text[1]

\* Python executing the generated script: the comment lines are skipped, the
\* tuple assignment binds its seven names.  Error is the exception raised
\* (a SyntaxError of the tokenizer or orjson's JSONDecodeError).
exec_service_vars(text) ==
  LET a == IndexFrom(text, 1, AssignOpen)
      q == IndexFrom(text, a + 1, "','")
      o == IndexFrom(text, q + 1, LoadsOpen)
  IN
  IF a = 0 \/ q = 0 \/ o = 0 \/ o + 3 > Len(text) THEN Error
  ELSE IF <<text[o + 1], text[o + 2], text[o + 3]>> # <<DQ, DQ, DQ>> THEN Error
  ELSE LET lit == PyTripleQuoted(text, o + 4, <<>>) IN
    IF lit.tag = "error" THEN Error
    ELSE IF lit.next > Len(text) \/ text[lit.next] # LoadsClose THEN Error
    ELSE LET e == IndexFrom(text, lit.next + 1, "',")
             loaded == orjson_loads(lit.val)
         IN
      IF e = 0 \/ e + 5 # Len(text) \/ text[e + 2] # "," \/ text[e + 4] # "," THEN Error
      ELSE IF loaded.tag = "error" THEN Error
      ELSE [tag |-> "ok",
            model_id |-> SubSeq(text, a + 1, q - 1),
            model_tag |-> SubSeq(text, q + 1, o - 1),
            adapter_map |-> loaded,
            serialization |-> SubSeq(text, lit.next + 1, e - 1),
            trust_remote_code |-> <<text[e + 1]>>,
            max_model_len |-> <<text[e + 3]>>,
            gpu_memory_utilization |-> <<text[e + 5]>>]

-----------------------------------------------------------------------------
(* openllm/models/falcon/__init__.py *)

\* lines 21-23
BaseImportStructure ==
  << <<"configuration_falcon",
       <<"FalconConfig", "START_FALCON_COMMAND_DOCSTRING", "DEFAULT_PROMPT_TEMPLATE">>>> >>

\* lines 25-31 without the test of line 26: the else clause always runs
falcon_import_structure_unchecked(torch_available) ==
  [uncaught |-> "",
   structure |-> SetItem(BaseImportStructure, "modeling_falcon", <<"Falcon">>)]

\* lines 25-31: the try statement.  The body raises MissingDependencyError when
\* torch is missing; the except clause swallows it; the else clause runs when
\* the body raised nothing.  uncaught is the exception leaving the statement.
falcon_import_structure(torch_available) ==
  LET raised == IF ~torch_available THEN "MissingDependencyError" ELSE ""
      caught == raised = "MissingDependencyError"
  IN [uncaught |-> IF caught THEN "" ELSE raised,
      structure |-> IF raised = ""
                      THEN SetItem(BaseImportStructure, "modeling_falcon", <<"Falcon">>)
                      ELSE BaseImportStructure]

\* lines 47-52: the module object put into sys.modules
LazyModule(name, import_structure) ==
  [name |-> name, import_structure |-> import_structure]

NotImported == [state |-> "unimported"]

\* the import of the package as a whole
import_falcon(torch_available) ==
  LET r == falcon_import_structure(torch_available) IN
  IF r.uncaught # ""
    THEN [state |-> "failed", torch_available |-> torch_available, error |-> r.uncaught]
    ELSE [state |-> "imported", torch_available |-> torch_available,
          sys_module |-> LazyModule("openllm.models.falcon", r.structure)]

-----------------------------------------------------------------------------
(* The state machine *)

\* the text of openllm/_service.py, read at lines 107-108
ServiceSource == S("<openllm/_service.py>")

ServiceVarsFile == "_service_vars.py"

Finished == {"done", "served", "raised"}

Fresh ==
  /\ labels = None
  /\ script = None
  /\ include = None
  /\ fs_before = None
  /\ calls = <<>>
  /\ python = None
  /\ returned_environ = None
  /\ docker = None
  /\ bento = None
  /\ service_vars = None

\* a new frame of create_bento: no local is bound yet
ClearLocals ==
  /\ labels' = None
  /\ script' = None
  /\ include' = None
  /\ fs_before' = None
  /\ calls' = <<>>
  /\ python' = None
  /\ returned_environ' = None
  /\ docker' = None
  /\ bento' = None
  /\ service_vars' = None

Init ==
  /\ pc = "idle"
  /\ dev_build \in BOOLEAN
  /\ llm_fs \in InitialFs
  /\ llm = None
  /\ adapter_map = None
  /\ extra_dependencies = None
  /\ serialisation = None
  /\ _serialisation = None
  /\ Fresh
  /\ prev_script = None
  /\ falcon = NotImported

\* the interpreter imports openllm.models.falcon as the process starts
ImportFalcon ==
  /\ pc = "idle"
  /\ falcon.state = "unimported"
  /\ \E torch_available \in BOOLEAN : falcon' = import_falcon(torch_available)
  /\ UNCHANGED <<pc, dev_build, llm_fs, llm, adapter_map, extra_dependencies,
                 serialisation, _serialisation, labels, script, include, fs_before, calls,
                 python,
                 returned_environ, docker, bento, prev_script, service_vars>>

\* entry into create_bento, through line 80
Enter(m, a, e, s) ==
  /\ llm' = m
  /\ adapter_map' = a
  /\ extra_dependencies' = e
  /\ serialisation' = s
  /\ _serialisation' = first_not_none(s, m.config.serialisation)
  /\ ClearLocals
  /\ pc' = "labels"

\* create_bento is called, once the package's modules are imported
Call ==
  /\ pc = "idle"
  /\ falcon.state = "imported"
  /\ \E m \in LLMs, a \in AdapterMaps, e \in ExtraDependencies, s \in Serialisations :
       Enter(m, a, e, s)
  /\ UNCHANGED <<dev_build, llm_fs, prev_script, falcon>>

\* create_bento is called again for the same model and adapter map, on the
\* staging filesystem the earlier call left, with any other argument and
\* any setting of the flag
Rebuild ==
  /\ pc \in Finished
  /\ \E e \in ExtraDependencies, s \in Serialisations : Enter(llm, adapter_map, e, s)
  /\ dev_build' \in BOOLEAN
  /\ prev_script' = Some(script)
  /\ UNCHANGED <<llm_fs, falcon>>

\* a new process starts over with a new staging filesystem
Reset ==
  /\ pc \in Finished
  /\ pc' = "idle"
  /\ dev_build' \in BOOLEAN
  /\ llm_fs' \in InitialFs
  /\ llm' = None
  /\ adapter_map' = None
  /\ extra_dependencies' = None
  /\ serialisation' = None
  /\ _serialisation' = None
  /\ ClearLocals
  /\ prev_script' = None
  /\ falcon' = NotImported

\* lines 81-91
ComputeLabels ==
  /\ pc = "labels"
  /\ labels' = bento_labels(llm, adapter_map)
  /\ pc' = "render"
  /\ UNCHANGED <<dev_build, llm_fs, llm, adapter_map, extra_dependencies, serialisation,
                 _serialisation, script, include, fs_before, calls, python,
                 returned_environ, docker, bento, prev_script, service_vars, falcon>>

\* lines 95-103
RenderScript ==
  /\ pc = "render"
  /\ script' = service_vars_script(llm, adapter_map, _serialisation)
  /\ pc' = "write_vars"
  /\ UNCHANGED <<dev_build, llm_fs, llm, adapter_map, extra_dependencies, serialisation,
                 _serialisation, labels, include, fs_before, calls, python,
                 returned_environ, docker, bento, prev_script, service_vars, falcon>>

\* line 106
WriteServiceVars ==
  /\ pc = "write_vars"
  /\ llm_fs' = writefile(llm_fs, ServiceVarsFile, Text(script))
  /\ pc' = "write_service"
  /\ UNCHANGED <<dev_build, llm, adapter_map, extra_dependencies, serialisation,
                 _serialisation, labels, script, include, fs_before, calls, python,
                 returned_environ, docker, bento, prev_script, service_vars, falcon>>

\* lines 107-109 left out: the service file is never written
WriteServiceFile_Skipped ==
  /\ pc = "write_service"
  /\ pc' = "include"
  /\ UNCHANGED <<dev_build, llm_fs, llm, adapter_map, extra_dependencies, serialisation,
                 _serialisation, labels, script, include, fs_before, calls, python,
                 returned_environ, docker, bento, prev_script, service_vars, falcon>>

\* lines 107-109
WriteServiceFile ==
  /\ pc = "write_service"
  /\ llm_fs' = writefile(llm_fs, llm.config.service_name, Text(ServiceSource))
  /\ pc' = "include"
  /\ UNCHANGED <<dev_build, llm, adapter_map, extra_dependencies, serialisation,
                 _serialisation, labels, script, include, fs_before, calls, python,
                 returned_environ, docker, bento, prev_script, service_vars, falcon>>

\* line 119: the first argument of BentoBuildConfig that reads the filesystem
WalkFiles ==
  /\ pc = "include"
  /\ include' = walk_files(llm_fs)
  /\ fs_before' = Some(llm_fs)
  /\ pc' = "python"
  /\ UNCHANGED <<dev_build, llm_fs, llm, adapter_map, extra_dependencies, serialisation,
                 _serialisation, labels, script, calls, python,
                 returned_environ, docker, bento,
                 prev_script, service_vars, falcon>>

\* the files of the staging filesystem after the build tool wrote `written`
AfterBuild(fs, written) ==
  [n \in DOMAIN fs \cup {BaseName(w) : w \in {x \in written : Parent(x) = FsRoot}} |->
     IF \E w \in written : Parent(w) = FsRoot /\ BaseName(w) = n
       THEN Wheel(getsyspath(n)) ELSE fs[n]]

\* line 48: one call of build_editable, for the next package.  The log entry
\* keeps what the call read of its environment.
BuildEditable ==
  /\ pc = "python"
  /\ Len(calls) < Len(Packages)
  /\ \E module_location \in SourceLocations(Packages[Len(calls) + 1]),
        host_files \in HostLayouts(Packages[Len(calls) + 1]) :
       LET package == Packages[Len(calls) + 1]
           r == build_editable(FsRoot, package, dev_build, module_location, host_files)
       IN /\ calls' = Append(calls,
                 [package |-> package,
                  dev |-> dev_build,
                  module_location |-> IF r.resolved THEN module_location ELSE None,
                  host_files |-> IF r.resolved /\ ~IsNone(module_location) THEN host_files ELSE {},
                  result |-> r])
          /\ llm_fs' = AfterBuild(llm_fs, r.written)
          /\ pc' = IF r.raised # "" THEN "raised" ELSE pc
  /\ UNCHANGED <<dev_build, llm, adapter_map, extra_dependencies, serialisation,
                 _serialisation, labels, script, include, fs_before, python,
                 returned_environ, docker, bento, prev_script, service_vars, falcon>>

\* lines 41-53, after the three calls of line 48 returned
ConstructPythonOptions ==
  /\ pc = "python"
  /\ Len(calls) = Len(Packages)
  /\ python' = PythonOptions(llm, extra_dependencies, adapter_map,
                             [i \in DOMAIN calls |-> calls[i].result.ret])
  /\ pc' = "docker"
  /\ UNCHANGED <<dev_build, llm_fs, llm, adapter_map, extra_dependencies, serialisation,
                 _serialisation, labels, script, include, fs_before, calls,
                 returned_environ, docker, bento, prev_script, service_vars, falcon>>

\* line 122.  quantize, adapter_map and serialisation are passed and not read;
\* dockerfile_template is None.
ConstructDockerOptions ==
  /\ pc = "docker"
  /\ \E returned \in ProcessEnviron(llm) :
       /\ returned_environ' = Some(returned)
       /\ docker' = construct_docker_options(returned, None)
  /\ pc' = "create"
  /\ UNCHANGED <<dev_build, llm_fs, llm, adapter_map, extra_dependencies, serialisation,
                 _serialisation, labels, script, include, fs_before, calls, python, bento,
                 prev_script, service_vars, falcon>>

\* lines 110-124: the bundler is invoked.  staged is the build context as
\* the bundler finds it.
BentoCreate ==
  /\ pc = "create"
  /\ bento' = Some([version |-> BentoTag(llm).version,
                    build_ctx |-> FsRoot,
                    staged |-> llm_fs,
                    build_config |->
                      [service |-> <<llm.config.service_name, ":svc">>,
                       name |-> BentoTag(llm).name,
                       labels |-> labels,
                       models |-> << [tag |-> TagStr(llm.tag), alias |-> llm.tag.name] >>,
                       description |-> S("OpenLLM service for ") \o llm.config.start_name,
                       include |-> include,
                       exclude |-> <<"/venv", "/.venv", "__pycache__/", "*.py[cod]", "*$py.class">>,
                       python |-> python,
                       docker |-> docker]])
  /\ pc' = "done"
  /\ UNCHANGED <<dev_build, llm_fs, llm, adapter_map, extra_dependencies, serialisation,
                 _serialisation, labels, script, include, fs_before, calls, python,
                 returned_environ, docker, prev_script, service_vars, falcon>>

\* the built service imports the generated _service_vars.py
ExecServiceVars ==
  /\ pc = "done"
  /\ service_vars' = exec_service_vars(llm_fs[ServiceVarsFile].text)
  /\ pc' = "served"
  /\ UNCHANGED <<dev_build, llm_fs, llm, adapter_map, extra_dependencies, serialisation,
                 _serialisation, labels, script, include, fs_before, calls, python,
                 returned_environ, docker, bento, prev_script, falcon>>

Next ==
  \/ ImportFalcon
  \/ Call
  \/ Rebuild
  \/ Reset
  \/ ComputeLabels
  \/ RenderScript
  \/ WriteServiceVars
  \/ WriteServiceFile
  \/ WalkFiles
  \/ BuildEditable
  \/ ConstructPythonOptions
  \/ ConstructDockerOptions
  \/ BentoCreate
  \/ ExecServiceVars

Spec == Init /\ [][Next]_vars

-----------------------------------------------------------------------------
(* Positions *)

AfterLabels == {"render", "write_vars", "write_service", "include", "python", "docker",
                "create", "done", "served", "raised"}
AfterRender == AfterLabels \ {"render"}
AfterWriteVars == AfterRender \ {"write_vars"}
AfterPython == {"docker", "create", "done", "served"}
AfterDocker == {"create", "done", "served"}
AfterCreate == {"done", "served"}

-----------------------------------------------------------------------------
(* Claims *)

\* C1: the bundler is invoked only after both generated files were written to
\* the staging filesystem, and at that moment every file the build
\* configuration refers to (the service file, every entry of the include list,
\* every wheel of the Python options) is in the staging filesystem.
C1_ReferencedFilesStaged ==
  /\ pc \notin AfterCreate => IsNone(bento)
  /\ pc \in AfterCreate =>
       LET staged == bento.val.staged
           cfg == bento.val.build_config
       IN /\ ServiceVarsFile \in DOMAIN staged
          /\ staged[ServiceVarsFile] = Text(script)
          /\ llm.config.service_name \in DOMAIN staged
          /\ staged[llm.config.service_name] = Text(ServiceSource)
          /\ cfg.service[1] \in DOMAIN staged
          /\ cfg.include \subseteq DOMAIN staged
          /\ ~IsNone(cfg.python.wheels) =>
               \A i \in DOMAIN cfg.python.wheels.val :
                 LET w == cfg.python.wheels.val[i] IN
                 /\ SubSeq(w, 1, Len(w) - 1) = bento.val.build_ctx
                 /\ w[Len(w)] \in DOMAIN staged
                 /\ staged[w[Len(w)]].kind = "wheel"

\* the bundler was invoked with wheels, after a dev-mode build
C1_Witness ==
  /\ pc = "done"
  /\ ~IsNone(bento)
  /\ ~IsNone(bento.val.build_config.python.wheels)
  /\ "README.md" \in bento.val.build_config.include

\* e1 supplies no more extra dependencies than e2
ExtraLeq(e1, e2) ==
  IsNone(e1) \/ (~IsNone(e2) /\ Range(e1.val) \subseteq Range(e2.val))

\* a1 supplies no adapter map where a2 may, or is a2
AdapterLeq(a1, a2) == IsNone(a1) \/ a1 = a2

\* C2: the package list of construct_python_options contains the three core
\* packages, and contains every entry of the list produced from smaller inputs
\* (no adapter map instead of one, fewer extra dependencies).
C2_CorePackagesAndMonotone ==
  pc \in AfterPython =>
    /\ { S("scipy"), S("bentoml[tracing]>=1.1.11,<1.2"), <<"openllm[vllm]>=", "0.4.44">> }
         \subseteq Range(python.packages)
    /\ \A e \in ExtraDependencies, a \in AdapterMaps :
         ExtraLeq(e, extra_dependencies) /\ AdapterLeq(a, adapter_map)
           => Range(python_packages(llm, e, a)) \subseteq Range(python.packages)

\* the options were built from an adapter map and two extra dependencies
C2_Witness ==
  /\ pc = "docker"
  /\ ~IsNone(adapter_map)
  /\ ~IsNone(extra_dependencies)
  /\ Len(extra_dependencies.val) = 2
  /\ Len(python.packages) > 5

\* C3: the environment of the DockerOptions has no BENTOML_HOME and has
\* NVIDIA_DRIVER_CAPABILITIES = 'compute,utility', whatever process_environ
\* returned.
C3_ContainerEnvironment ==
  pc \in AfterDocker =>
    /\ ~HasKey(docker.env, S("BENTOML_HOME"))
    /\ HasKey(docker.env, S("NVIDIA_DRIVER_CAPABILITIES"))
    /\ Lookup(docker.env, S("NVIDIA_DRIVER_CAPABILITIES")) = S("compute,utility")

\* process_environ returned both variables, the second with another value
C3_Witness ==
  /\ pc = "create"
  /\ HasKey(returned_environ.val, S("BENTOML_HOME"))
  /\ HasKey(returned_environ.val, S("NVIDIA_DRIVER_CAPABILITIES"))
  /\ Lookup(returned_environ.val, S("NVIDIA_DRIVER_CAPABILITIES")) # S("compute,utility")

\* C4: with OPENLLM_DEV_BUILD unset, every build_editable call returns None
\* without resolving the source location, invoking the build tool or writing a
\* file; construct_python_options leaves the staging filesystem as it found it
\* and returns wheels = None.
C4_NoDevBuildNoEffect ==
  ~dev_build =>
    /\ \A i \in DOMAIN calls :
         /\ IsNone(calls[i].result.ret)
         /\ calls[i].result.raised = ""
         /\ ~calls[i].result.resolved
         /\ calls[i].result.builds = 0
         /\ calls[i].result.written = {}
    /\ pc \in {"python", "docker"} => llm_fs = fs_before.val
    /\ pc \in AfterPython => IsNone(python.wheels)
    /\ pc # "raised"

\* construct_python_options returned with the flag unset
C4_Witness ==
  /\ pc = "docker"
  /\ ~dev_build
  /\ Len(calls) = Len(Packages)
  /\ IsNone(python.wheels)

C6_CoreLabelsKept ==
  pc \in AfterCreate =>
    LET given == bento.val.build_config.labels IN
    /\ Lookup(given, S("_type")) = llm.llm_type
    /\ Lookup(given, S("_framework")) = llm.backend
    /\ Lookup(given, S("start_name")) = llm.config.start_name
    /\ Lookup(given, S("base_name_or_path")) = llm.model_id
    /\ Lookup(given, S("bundler")) = S("openllm.bundle")
    /\ Lookup(given, S("openllm_version")) = InstalledVersion("openllm")
    /\ Lookup(given, S("openllm_core_version")) = InstalledVersion("openllm-core")
    /\ Lookup(given, S("openllm_client_version")) = InstalledVersion("openllm-client")

\* C7: for a fixed model and adapter map the text written to _service_vars.py
\* is the same in every invocation, whatever the serialisation argument, the
\* staging filesystem, the flag and the earlier invocations were.
C7_ScriptDeterministic ==
  ~IsNone(prev_script) =>
    /\ pc \in AfterRender => script = prev_script.val
    /\ pc \in AfterWriteVars => llm_fs[ServiceVarsFile] = Text(prev_script.val)

\* a second invocation, with a serialisation argument that differs from the
\* model's own and on a filesystem that holds the wheels of the first, wrote
\* the script
C7_Witness ==
  /\ ~IsNone(prev_script)
  /\ pc = "write_service"
  /\ ~IsNone(serialisation)
  /\ serialisation.val # llm.config.serialisation
  /\ WheelName("openllm") \in DOMAIN llm_fs

\* C8: the import of the Falcon package never fails for a missing torch; the
\* import structure given to LazyModule holds configuration_falcon with its
\* three names, and modeling_falcon with Falcon exactly when torch is
\* available.
C8_FalconImportStructure ==
  /\ falcon.state # "failed"
  /\ falcon.state = "imported" =>
       LET given == falcon.sys_module.import_structure IN
       /\ HasKey(given, "configuration_falcon")
       /\ Lookup(given, "configuration_falcon")
            = <<"FalconConfig", "START_FALCON_COMMAND_DOCSTRING", "DEFAULT_PROMPT_TEMPLATE">>
       /\ HasKey(given, "modeling_falcon") <=> falcon.torch_available
       /\ HasKey(given, "modeling_falcon") => Lookup(given, "modeling_falcon") = <<"Falcon">>

\* the package was imported without torch
C8_Witness ==
  /\ falcon.state = "imported"
  /\ ~falcon.torch_available

\* C9: executing the generated _service_vars.py binds adapter_map to the
\* adapter map that create_bento was given.
C9_AdapterMapRoundTrip ==
  pc = "served" =>
    /\ service_vars.tag = "ok"
    /\ service_vars.adapter_map = adapter_map

\* C10: the serialization mode in the generated _service_vars.py is the
\* resolved one: the serialisation argument when given, the model
\* configuration's otherwise.
C10_ResolvedSerialisationEmbedded ==
  (pc = "served" /\ service_vars.tag = "ok") =>
    service_vars.serialization
      = (IF IsNone(serialisation) THEN llm.config.serialisation ELSE serialisation.val)

====
